---- MODULE Spec2Model ----
(***************************************************************************)
(* SingleCell: coupling of a deterministic (ODE) module and a stochastic   *)
(* (tau-leap) module.  The model covers the orchestrator                   *)
(* (src/src/SingleCell.cpp), the module base class (src/src/BaseModule.cpp)*)
(* the two module variants (src/src/StochasticModule.cpp,                  *)
(* src/src/DeterministicModule.cpp) and the SBML handler                   *)
(* (src/src/SBMLHandler.cpp).                                              *)
(*                                                                         *)
(* Numbers.  The program computes with doubles.  A value is modelled as a  *)
(* record [n, qe, ve] standing for the real number n * Q^qe * vol^ve,      *)
(* where Q = 6.022e23 * 1e-9 and vol is the compartment volume of the      *)
(* species the value belongs to.  A molecule count is [n, 0, 0]; the same  *)
(* amount as a nanomolar concentration is [n, -1, -1].  Multiplying by a   *)
(* conversion factor shifts the exponents, so a conversion is never the    *)
(* identity and applying one twice is visible.  Declared concentrations    *)
(* are taken to correspond to whole molecule counts.                       *)
(***************************************************************************)
EXTENDS Integers, Sequences, FiniteSets, TLC

(***************************************************************************)
(* Bounds of the model.                                                    *)
(***************************************************************************)
MaxFire == 2
MaxStop == 3
MaxCount == 2
MaxCoef == 2

\* the values std::random_device can hand to the generator
MaxSeed == 1

\* the largest stop of a call of simulate that is followed by a second call
RepeatStop == 2

(***************************************************************************)
(* Values and unit conversion factors.                                     *)
(***************************************************************************)
Val(n, qe, ve) == [n |-> n, qe |-> qe, ve |-> ve]

Zero == Val(0, 0, 0)

Declared(n) == Val(n, -1, -1)

\* two values denote the same real number
SameVal(a, b) == (a.n = 0 /\ b.n = 0) \/ a = b

SameVec(u, w) == Len(u) = Len(w) /\ \A j \in 1..Len(u) : SameVal(u[j], w[j])

\* a conversion factor is the pair of exponents of Q and vol it multiplies by
Factor(qe, ve) == [qe |-> qe, ve |-> ve]

mpc2nanomolar(cell_volumes) == [i \in 1..Len(cell_volumes) |-> Factor(-1, -1)]

nanomolar2mpv(cell_volumes) == [i \in 1..Len(cell_volumes) |-> Factor(1, 0)]

molecules2nanomolar(cell_volumes) == [i \in 1..Len(cell_volumes) |-> Factor(-1, -1)]

\* the vector of compartment volumes used as a vector of factors
VolumeFactors(cell_volumes) == [i \in 1..Len(cell_volumes) |-> Factor(0, 1)]

Times(v, f) == Val(v.n, v.qe + f.qe, v.ve + f.ve)

\* SBMLHandler::convertSpeciesUnits on a species vector
convertSpeciesUnits(current_val, conversion_factors) ==
    [i \in 1..Len(current_val) |-> Times(current_val[i], conversion_factors[i])]

(***************************************************************************)
(* Tau-leap arithmetic on plain numbers.                                   *)
(***************************************************************************)
Abs(v) == IF v < 0 THEN -v ELSE v

MinOf(S) == CHOOSE v \in S : \A w \in S : v <= w

getColumn(matrix, indexCol) == [j \in 1..Len(matrix) |-> matrix[j][indexCol]]

RECURSIVE SumTo(_, _)
SumTo(f, k) == IF k = 0 THEN 0 ELSE f[k] + SumTo(f, k - 1)

\* a constrainTau that takes the smallest product whatever the sampled count
constrainTau_productsOnly(stoichmat, m_i, xhat_tn) ==
    [i \in 1..Len(m_i) |->
        IF i <= Len(stoichmat[1])
        THEN LET S_i == getColumn(stoichmat, i)
                 Rhat_i == [j \in 1..Len(xhat_tn) |-> xhat_tn[j] * S_i[j]]
                 abs_r == {Abs(Rhat_i[j]) : j \in 1..Len(xhat_tn)} \ {0}
             IN  IF abs_r = {} THEN m_i[i] ELSE MinOf(abs_r)
        ELSE 0]

constrainTau(stoichmat, m_i, xhat_tn) ==
    [i \in 1..Len(m_i) |->
        IF i <= Len(stoichmat[1])
        THEN LET S_i == getColumn(stoichmat, i)
                 Rhat_i == [j \in 1..Len(xhat_tn) |-> xhat_tn[j] * S_i[j]]
                 abs_r == {Abs(Rhat_i[j]) : j \in 1..Len(xhat_tn)} \ {0}
             IN  MinOf({m_i[i]} \cup abs_r)
        ELSE 0]

\* a computeNewState that applies consumption only
computeNewState_consumptionOnly(stoichmat, state_t, real_vec) ==
    [i \in 1..Len(state_t) |->
        LET prod == [j \in 1..Len(real_vec) |->
                        IF stoichmat[i][j] < 0 THEN stoichmat[i][j] * real_vec[j]
                        ELSE 0]
        IN  state_t[i] + SumTo(prod, Len(real_vec))]

computeNewState(stoichmat, state_t, real_vec) ==
    [i \in 1..Len(state_t) |->
        LET prod == [j \in 1..Len(real_vec) |-> stoichmat[i][j] * real_vec[j]]
        IN  state_t[i] + SumTo(prod, Len(real_vec))]

(***************************************************************************)
(* The SBML models the program is run on.  Each handler owns one libSBML   *)
(* Model; SBMLHandler has no copy constructor, so every copy of a handler  *)
(* (the module's `handler`, the module's `sbml`, the local                 *)
(* `alternate_model` of updateParameters) points at that same Model.  The  *)
(* live entity values are therefore kept per handler index.                *)
(***************************************************************************)
ModelDef(name) ==
    CASE name = "det"  -> [id |-> "Deterministic",
                           speciesIds |-> <<"X">>, init |-> <<2>>,
                           paramIds |-> <<"P", "R">>, pinit |-> <<0, 0>>,
                           compartmentIds |-> <<"cell">>,
                           stoichmat |-> << <<>> >>]
      [] name = "sto1" -> [id |-> "Stochastic",
                           speciesIds |-> <<"P", "G">>, init |-> <<3, 0>>,
                           paramIds |-> <<"X", "k">>, pinit |-> <<0, 1>>,
                           compartmentIds |-> <<"cell">>,
                           stoichmat |-> << <<-2>>, <<1>> >>]
      [] name = "sto2" -> [id |-> "Stochastic",
                           speciesIds |-> <<"P">>, init |-> <<1>>,
                           paramIds |-> <<"X">>, pinit |-> <<0>>,
                           compartmentIds |-> <<"cell">>,
                           stoichmat |-> << <<>> >>]
      [] name = "sto3" -> [id |-> "Stochastic",
                           speciesIds |-> <<"R">>, init |-> <<1>>,
                           paramIds |-> <<"X">>, pinit |-> <<0>>,
                           compartmentIds |-> <<"cell">>,
                           stoichmat |-> << <<>> >>]
      \* the closed network A -> B, B -> A
      [] name = "toy"  -> [id |-> "Stochastic",
                           speciesIds |-> <<"A", "B">>, init |-> <<2, 0>>,
                           paramIds |-> <<"k1", "k2">>, pinit |-> <<1, 1>>,
                           compartmentIds |-> <<"cell">>,
                           stoichmat |-> << <<-1, 1>>, <<1, -1>> >>]
      \* a model without species whose id is a key of the factory
      [] name = "empty" -> [id |-> "Stochastic",
                           speciesIds |-> <<>>, init |-> <<>>,
                           paramIds |-> <<>>, pinit |-> <<>>,
                           compartmentIds |-> <<"cell">>,
                           stoichmat |-> << <<>> >>]
      \* a model without species whose id is no key of the factory
      [] name = "other" -> [id |-> "Other",
                           speciesIds |-> <<>>, init |-> <<>>,
                           paramIds |-> <<>>, pinit |-> <<>>,
                           compartmentIds |-> <<"cell">>,
                           stoichmat |-> << <<>> >>]

\* the lists of model files a SingleCell object is constructed from
HandlerLists ==
    { <<"det", "sto1">>, <<"sto1", "det">>, <<"det", "sto1", "sto2">>,
      <<"det", "sto1", "sto3">>, <<"det">>, <<"sto1">>,
      <<"toy">>, <<"det", "toy">>, <<"det", "empty">>, <<"det", "other">>,
      <<"det", "det", "sto1">> }

\* the override maps simulate is called with: no override, or one
\* (identifier, value) pair
OverrideIds == {"X", "P", "G", "cell", "Z"}

OverrideValues == 0..1

Overrides ==
    {<<>>} \cup {<<[id |-> i, value |-> v]>> : i \in OverrideIds, v \in OverrideValues}

IndexOf(seq, x) == CHOOSE i \in 1..Len(seq) : seq[i] = x

InSeq(seq, x) == \E i \in 1..Len(seq) : seq[i] = x

VARIABLES
    handlers,            \* SingleCell::handlers (model names)
    start, stop, stepSize, \* arguments of simulate
    entity_map,          \* argument of simulate: the override pairs
    volumes,             \* per handler: live compartment volumes of its Model
    stepCalls,           \* per module: number of step() calls made so far
    species,             \* per handler: live species values of its Model
    params,              \* per handler: live parameter values of its Model
    modules,             \* SingleCell::modules
    targets,             \* per module: BaseModule::targets
    overlapping_params,  \* per module: BaseModule::overlapping_params
    results_matrix,      \* per module: BaseModule::results_matrix
    amici,               \* per module: fixed parameters of the AMICI model
    delta_t,             \* per module: StochasticModule::delta_t
    final_matrix,        \* the matrix simulate returns
    pc, cur, stepIdx,    \* position of simulate: phase, module, step index
    stepDone, exchDone,  \* per module: last step / exchange round completed
    stepInput,           \* per module: the state its last step computed from
    stepLive,            \* per module: its Model's live species when that step began
    initRow,             \* per module: the row setSimulationSettings recorded
    lastCall,            \* the module call the last transition made
    rowAccess,           \* the results-matrix row indices that call read or wrote
    calls,               \* how many times simulate has been called on the object
    tpc, tS, tx, tm, tmhat, tnew, \* constrainTau / computeNewState on their own
    rpc,                 \* the rate-law harness: position
    rKinds,              \* per identifier: the kinds of entity the Model has under it
    rFormulas,           \* StochasticModule::formulas_vector
    rBindings,           \* per reaction: the map mapComponentsToValues returned
    rRates,              \* the vector computeReactions returned
    rRuns                \* per completed step: its Poisson draws and new state

mainVars == <<handlers, start, stop, stepSize, entity_map, volumes,
              stepCalls, species, params, modules,
              targets, overlapping_params, results_matrix, amici, delta_t,
              final_matrix, pc, cur, stepIdx, stepDone, exchDone, stepInput,
              stepLive, initRow, lastCall, rowAccess, calls>>

tauVars == <<tpc, tS, tx, tm, tmhat, tnew>>

rateVars == <<rpc, rKinds, rFormulas, rBindings, rRates, rRuns>>

vars == <<mainVars, tauVars, rateVars>>

NoCall == [op |-> "none", mod |-> 0, idx |-> 0]

Call(op, m, i) == [op |-> op, mod |-> m, idx |-> i]

(***************************************************************************)
(* BaseModule                                                              *)
(***************************************************************************)
setTimeSteps(a, b, c) ==
    LET count == IF b <= a THEN 0 ELSE ((b - a - 1) \div c) + 1
    IN  [k \in 1..count |-> a + (k - 1) * c]

createResultsMatrix(numSpecies, numTimeSteps) ==
    [r \in 0..(numTimeSteps - 1) |-> [j \in 1..numSpecies |-> Zero]]

\* a recordStepResult that also overwrites the first row
recordStepResult_clobbersRowZero(matrix, state_vector, timepoint) ==
    [r \in DOMAIN matrix |->
        IF r = timepoint \/ r = 0 THEN state_vector ELSE matrix[r]]

\* results_matrix[timepoint] = state_vector (the copy into the Model's
\* species is made by the callers below through `species`)
recordStepResult(matrix, state_vector, timepoint) ==
    [matrix EXCEPT ![timepoint] = state_vector]

\* a getLastStepResult that is off by one: the row being computed
getLastStepResult_currentRow(matrix, timestep) == matrix[timestep]

\* the row index getLastStepResult reads
lastStepRow(timestep) == IF timestep > 0 THEN timestep - 1 ELSE timestep

getLastStepResult(matrix, timestep) == matrix[lastStepRow(timestep)]

\* a findOverlappingIds that takes every parameter id
findOverlappingIds_everyParameter(param_ids, alt_species_ids) == param_ids

\* BaseModule::findOverlappingIds: the ids appended for one target
findOverlappingIds(param_ids, alt_species_ids) ==
    SelectSeq(param_ids, LAMBDA id : InSeq(alt_species_ids, id))

NumRows(m) == Cardinality(DOMAIN results_matrix[m])

\* timesteps.size(): the number of rows createResultsMatrix is asked for
NumTimeSteps == Len(setTimeSteps(start, stop, stepSize))

Def(m) == ModelDef(handlers[modules[m].h])

(***************************************************************************)
(* Initial state: a SingleCell object constructed from a list of model     *)
(* files, about to run simulate(entity_map, start, stop, step).            *)
(***************************************************************************)
TauIdle ==
    /\ tpc = "off" /\ tS = <<>> /\ tx = <<>> /\ tm = <<>>
    /\ tmhat = <<>> /\ tnew = <<>>

RateIdle ==
    /\ rpc = "off" /\ rKinds = <<>> /\ rFormulas = <<>>
    /\ rBindings = <<>> /\ rRates = <<>> /\ rRuns = <<>>

\* simulate is called with start = 0, step = 1 and a stop taken from `stops`
MainInitOver(stops) ==
    /\ handlers \in HandlerLists
    /\ start = 0
    /\ stop \in stops
    /\ stepSize = 1
    /\ entity_map \in Overrides
    /\ volumes = [h \in 1..Len(handlers) |->
                    [j \in 1..Len(ModelDef(handlers[h]).compartmentIds) |-> 1]]
    /\ stepCalls = <<>>
    /\ species = [h \in 1..Len(handlers) |->
                    LET d == ModelDef(handlers[h])
                    IN  [j \in 1..Len(d.init) |-> Declared(d.init[j])]]
    /\ params = [h \in 1..Len(handlers) |->
                    LET d == ModelDef(handlers[h])
                    IN  [j \in 1..Len(d.pinit) |-> Declared(d.pinit[j])]]
    /\ modules = <<>>
    /\ targets = <<>>
    /\ overlapping_params = <<>>
    /\ results_matrix = <<>>
    /\ amici = <<>>
    /\ delta_t = <<>>
    /\ final_matrix = <<>>
    /\ pc = "load"
    /\ cur = 1
    /\ stepIdx = 0
    /\ stepDone = <<>>
    /\ exchDone = <<>>
    /\ stepInput = <<>>
    /\ stepLive = <<>>
    /\ initRow = <<>>
    /\ lastCall = NoCall
    /\ rowAccess = {}
    /\ calls = 1

\* a call with start < stop
MainInit == MainInitOver(1..MaxStop)

Init == MainInit /\ TauIdle /\ RateIdle

(***************************************************************************)
(* SingleCell::loadSimulationModules and the module constructors           *)
(***************************************************************************)
moduleFactory == {"Deterministic", "Stochastic"}

\* DeterministicModule::DeterministicModule: getModuleId() returns the class
\* member algorithm_id, "Deterministic", whatever the model's id is
DeterministicModule(h) ==
    [kind |-> "Deterministic", h |-> h,
     algorithm_id |-> "Deterministic", target_id |-> "Stochastic"]

\* StochasticModule::StochasticModule
StochasticModule(h) ==
    [kind |-> "Stochastic", h |-> h,
     algorithm_id |-> ModelDef(handlers[h]).id, target_id |-> "deterministic"]

getModuleId(mod) == mod.algorithm_id

RECURSIVE loadFrom(_, _)
loadFrom(h, acc) ==
    IF h > Len(handlers) THEN acc
    ELSE LET id == ModelDef(handlers[h]).id
             base_mod == IF id = "Stochastic" THEN StochasticModule(h)
                         ELSE DeterministicModule(h)
         IN  IF id \in moduleFactory
             THEN IF Len(ModelDef(handlers[h]).speciesIds) # 0
                  THEN loadFrom(h + 1, Append(acc, base_mod))
                  ELSE loadFrom(h + 1, acc)
             ELSE loadFrom(h + 1, Append(acc, DeterministicModule(h)))

\* the program point after the loop over the modules at `phase` has handled
\* module m: the next module, or the first module of the next phase
nextModule(m, phase, following) ==
    IF m < Len(modules) THEN [pc |-> phase, cur |-> m + 1]
    ELSE [pc |-> following, cur |-> 1]

LoadSimulationModules ==
    /\ pc = "load"
    /\ LET new == loadFrom(1, modules)
           fresh(x) == [m \in 1..Len(new) |-> x]
           \* the modules already in the list keep their members
           kept(old, x) == [m \in 1..Len(new) |->
                              IF m <= Len(modules) THEN old[m] ELSE x]
       IN  /\ modules' = new
           /\ targets' = kept(targets, <<>>)
           /\ overlapping_params' = kept(overlapping_params, <<>>)
           /\ results_matrix' = kept(results_matrix, <<>>)
           /\ amici' = kept(amici, <<>>)
           /\ delta_t' = kept(delta_t, 0)
           /\ stepDone' = fresh(0)
           /\ stepCalls' = fresh(0)
           /\ exchDone' = fresh(0)
           /\ stepInput' = fresh(<<>>)
           /\ stepLive' = fresh(<<>>)
           /\ initRow' = fresh(<<>>)
           /\ pc' = IF Len(new) = 0 THEN "combine" ELSE "targets"
    /\ cur' = 1
    /\ lastCall' = Call("loadSimulationModules", 0, 0)
    /\ rowAccess' = {}
    /\ UNCHANGED <<handlers, start, stop, stepSize, entity_map, volumes, species, params,
                   final_matrix, stepIdx, calls, tauVars, rateVars>>

(***************************************************************************)
(* SingleCell::assignGlobalTargets calls loadTargetModule of each module   *)
(***************************************************************************)
RECURSIVE matchingModules(_, _, _)
matchingModules(k, target_id, acc) ==
    IF k > Len(modules) THEN acc
    ELSE matchingModules(k + 1, target_id,
            IF getModuleId(modules[k]) = target_id THEN Append(acc, k) ELSE acc)

loadTargetModule(m) == matchingModules(1, modules[m].target_id, targets[m])

\* an assignGlobalTargets that resolves the overlaps of each module right
\* after that module's targets
afterTargets_perModule(m) == [pc |-> "overlaps", cur |-> m]

\* the program point after loadTargetModule of module m
afterTargets(m) == nextModule(m, "targets", "overlaps")

LoadTargetModule(m) ==
    /\ pc = "targets" /\ cur = m
    /\ targets' = [targets EXCEPT ![m] = loadTargetModule(m)]
    /\ LET nx == afterTargets(m)
       IN  pc' = nx.pc /\ cur' = nx.cur
    /\ lastCall' = Call("loadTargetModule", m, 0)
    /\ rowAccess' = {}
    /\ UNCHANGED <<handlers, start, stop, stepSize, entity_map, volumes, species, params, modules,
                   overlapping_params, results_matrix, amici, delta_t,
                   final_matrix, stepIdx, stepDone, stepCalls, exchDone, stepInput, stepLive,
                   initRow, calls, tauVars, rateVars>>

(***************************************************************************)
(* SingleCell::findModuleOverlaps: findOverlappingIds for each target      *)
(***************************************************************************)
RECURSIVE overlapsOver(_, _, _)
overlapsOver(m, ts, acc) ==
    IF ts = <<>> THEN acc
    ELSE overlapsOver(m, Tail(ts),
            acc \o findOverlappingIds(Def(m).paramIds, Def(Head(ts)).speciesIds))

FindModuleOverlaps(m) ==
    /\ pc = "overlaps" /\ cur = m
    /\ overlapping_params' =
          [overlapping_params EXCEPT
              ![m] = overlapsOver(m, targets[m], overlapping_params[m])]
    /\ LET nx == nextModule(m, "overlaps", "settings")
       IN  pc' = nx.pc /\ cur' = nx.cur
    /\ lastCall' = Call("findOverlappingIds", m, 0)
    /\ rowAccess' = {}
    /\ UNCHANGED <<handlers, start, stop, stepSize, entity_map, volumes, species, params, modules,
                   targets, results_matrix, amici, delta_t, final_matrix,
                   stepIdx, stepDone, stepCalls, exchDone, stepInput, stepLive, initRow, calls, tauVars, rateVars>>

(***************************************************************************)
(* SBMLHandler::setModelEntityValue.  `st` holds the parameters, species   *)
(* and compartment volumes of one Model and how the call ended ("ok",      *)
(* "exited" after std::exit(EXIT_FAILURE), "crashed").                     *)
(*                                                                         *)
(* The third test is getCompartment(new_value): with a double argument     *)
(* the overload Model::getCompartment(unsigned int n) is selected, which   *)
(* returns the n-th compartment or a null pointer.  The branch then calls  *)
(* getCompartment(entity_id)->setVolume without a null check; when         *)
(* entity_id names no compartment this is undefined behaviour: the process *)
(* dies, or the write lands nowhere in the Model and the call returns.     *)
(***************************************************************************)
UbOutcomes ==
    {[crash |-> TRUE, v |-> Zero]} \cup
    {[crash |-> FALSE, v |-> Val(g, 0, 0)] : g \in {0, 9}}

\* is Model::getCompartment(n) a compartment (not a null pointer)
getCompartment(d, n) == n < Len(d.compartmentIds)

setModelEntityValue(st, d, entity_id, new_value, ub) ==
    IF InSeq(d.paramIds, entity_id)
    THEN [st EXCEPT !.params[IndexOf(d.paramIds, entity_id)] =
                        Declared(new_value)]
    ELSE IF InSeq(d.speciesIds, entity_id)
    THEN [st EXCEPT !.species[IndexOf(d.speciesIds, entity_id)] =
                        Declared(new_value)]
    ELSE IF getCompartment(d, new_value)
    THEN IF InSeq(d.compartmentIds, entity_id)
         THEN [st EXCEPT !.volumes[IndexOf(d.compartmentIds, entity_id)] =
                             new_value]
         ELSE IF ub.crash THEN [st EXCEPT !.end = "crashed"] ELSE st
    ELSE [st EXCEPT !.end = "exited"]

\* the loop of DeterministicModule::setSimulationSettings over entity_map
RECURSIVE applyOverrides(_, _, _, _)
applyOverrides(st, d, pairs, ub) ==
    IF pairs = <<>> \/ st.end # "ok" THEN st
    ELSE applyOverrides(
             setModelEntityValue(st, d, Head(pairs).id, Head(pairs).value, ub),
             d, Tail(pairs), ub)

(***************************************************************************)
(* setSimulationSettings of both module variants.  The Deterministic       *)
(* variant applies the override map to its handler; the Stochastic variant *)
(* (StochasticModule.cpp) takes start, stop and step only and reads the    *)
(* handler's state as it is.  The AMICI model is the compiled one, with    *)
(* its own fixed parameters.                                               *)
(***************************************************************************)
\* results_matrix[row] on a matrix of `rows` rows: inside the matrix the
\* access is defined; outside it is undefined behaviour (the process dies,
\* or the write is lost, or the read yields some value)
OutOfRange(row, rows) ==
    IF row < rows THEN {[crash |-> FALSE, v |-> Zero]} ELSE UbOutcomes

\* the program point after setSimulationSettings of module m
afterSettings(m) == nextModule(m, "settings", "runGlobal")

SetSimulationSettings(m) ==
    /\ pc = "settings" /\ cur = m
    /\ \E ub \in UbOutcomes, outside \in OutOfRange(0, NumTimeSteps) :
        LET h == modules[m].h
            before == [params |-> params[h], species |-> species[h],
                       volumes |-> volumes[h], end |-> "ok"]
            st == IF modules[m].kind = "Deterministic"
                  THEN applyOverrides(before, Def(m), entity_map, ub)
                  ELSE before
            timesteps == setTimeSteps(start, stop, stepSize)
            numSpecies == Len(Def(m).speciesIds)
            init_states == st.species
            matrix == createResultsMatrix(numSpecies, Len(timesteps))
            nx == afterSettings(m)
        IN  /\ params' = [params EXCEPT ![h] = st.params]
            /\ species' = [species EXCEPT ![h] = st.species]
            /\ volumes' = [volumes EXCEPT ![h] = st.volumes]
            /\ IF st.end = "ok"
               THEN /\ results_matrix' =
                          [results_matrix EXCEPT
                              ![m] = IF 0 \in DOMAIN matrix
                                     THEN recordStepResult(matrix, init_states, 0)
                                     ELSE matrix]
                    /\ rowAccess' = {0}
                    /\ initRow' = [initRow EXCEPT ![m] = init_states]
                    /\ amici' = [amici EXCEPT
                          ![m] = IF modules[m].kind = "Deterministic"
                                 THEN [j \in 1..Len(Def(m).pinit) |->
                                          Declared(Def(m).pinit[j])]
                                 ELSE @]
                    /\ delta_t' = [delta_t EXCEPT
                          ![m] = IF modules[m].kind = "Stochastic"
                                 THEN stepSize ELSE @]
                    /\ IF outside.crash
                       THEN pc' = "crashed" /\ cur' = cur
                       ELSE pc' = nx.pc /\ cur' = nx.cur
               ELSE /\ pc' = st.end /\ cur' = cur
                    /\ rowAccess' = {}
                    /\ UNCHANGED <<results_matrix, initRow, amici, delta_t>>
    /\ lastCall' = Call("setSimulationSettings", m, 0)
    /\ UNCHANGED <<handlers, start, stop, stepSize, entity_map, modules,
                   targets, overlapping_params, final_matrix, stepIdx,
                   stepDone, stepCalls, exchDone, stepInput, stepLive, calls, tauVars, rateVars>>

(***************************************************************************)
(* StochasticModule::step                                                  *)
(***************************************************************************)
\* the draws samplePoisson can return, one per reaction
Realizations(m) == [1..Len(Def(m).stoichmat[1]) -> 0..MaxFire]

Numbers(state) == [j \in 1..Len(state) |-> state[j].n]

\* the record of one call step(step): the handler state the tau-leap
\* arithmetic reads (`input`) and the state recorded at row `step` (`row`)
stochasticStepOn(matrix, d, step, realizations) ==
    LET species_volumes == d.speciesIds
        last_state_nM == getLastStepResult(matrix, step)
        mpv == convertSpeciesUnits(last_state_nM, nanomolar2mpv(species_volumes))
        molecules == convertSpeciesUnits(mpv, VolumeFactors(species_volumes))
        constrained_realizations ==
            constrainTau(d.stoichmat, realizations, Numbers(molecules))
        new_numbers ==
            computeNewState(d.stoichmat, Numbers(molecules),
                            constrained_realizations)
        new_state == [j \in 1..Len(molecules) |->
                         Val(new_numbers[j], molecules[j].qe, molecules[j].ve)]
        nM == convertSpeciesUnits(new_state, molecules2nanomolar(species_volumes))
    IN  [input |-> molecules, row |-> nM]

stochasticStep(m, step, realizations) ==
    stochasticStepOn(results_matrix[m], Def(m), step, realizations)

(***************************************************************************)
(* DeterministicModule::step and ::run.  The AMICI solver integrates from  *)
(* time 0 to the last timepoint it is given; it is modelled as a flow that *)
(* adds, per unit of time, a rate fixed by the fixed parameters.           *)
(***************************************************************************)
RECURSIVE sumNumbers(_)
sumNumbers(vec) == IF vec = <<>> THEN 0 ELSE Head(vec).n + sumNumbers(Tail(vec))

runAmiciSimulation(initial_states, fixed, t) ==
    [j \in 1..Len(initial_states) |->
        Val(initial_states[j].n + t * (1 + sumNumbers(fixed)),
            initial_states[j].qe, initial_states[j].ve)]

\* step_forward = {0.0, static_cast<double>(step)}
stepTimepoints(step) == <<0, step>>

\* DeterministicModule::step on a given results matrix: the solver is handed
\* the timepoints step_forward and the last of its outputs is recorded
deterministicStepOn(matrix, fixed, step) ==
    LET last_record == getLastStepResult(matrix, step)
        step_forward == stepTimepoints(step)
    IN  [input |-> last_record,
         row |-> runAmiciSimulation(last_record, fixed,
                                    step_forward[Len(step_forward)])]

deterministicStep(m, step) ==
    deterministicStepOn(results_matrix[m], amici[m], step)

moduleStep(m, step, realizations) ==
    IF modules[m].kind = "Stochastic"
    THEN stochasticStep(m, step, realizations)
    ELSE deterministicStep(m, step)

\* step(step) of module m computed on a given results matrix and given
\* fixed parameters
moduleStepOn(m, matrix, fixed, step, realizations) ==
    IF modules[m].kind = "Stochastic"
    THEN stochasticStepOn(matrix, Def(m), step, realizations)
    ELSE deterministicStepOn(matrix, fixed, step)

Draws(m) == IF modules[m].kind = "Stochastic" THEN Realizations(m) ELSE {<<>>}

\* every module writing its state into the Model of the first handler
stepHandler_shared(m) == modules[1].h

\* the Model a step of module m writes its species into: this->handler.model
stepHandler(m) == modules[m].h

\* the effect of step(step) of module m on the module and on its Model
StepEffect(m, step, realizations) ==
    LET r == moduleStep(m, step, realizations)
    IN  /\ results_matrix' =
              [results_matrix EXCEPT
                  ![m] = recordStepResult(results_matrix[m], r.row, step)]
        /\ species' = [species EXCEPT ![stepHandler(m)] = r.row]
        /\ stepInput' = [stepInput EXCEPT ![m] = r.input]
        /\ stepLive' = [stepLive EXCEPT ![m] = species[modules[m].h]]
        /\ stepDone' = [stepDone EXCEPT ![m] = step]
        /\ stepCalls' = [stepCalls EXCEPT ![m] = @ + 1]
        /\ lastCall' = Call("step", m, step)
        /\ rowAccess' = {lastStepRow(step), step}

(***************************************************************************)
(* SingleCell::runGlobal, stepGlobal, updateGlobalParameters               *)
(***************************************************************************)
RunGlobal ==
    /\ pc = "runGlobal"
    /\ IF Len(modules) = 1
       THEN /\ pc' = IF modules[1].kind = "Stochastic" /\ NumTimeSteps = 0
                     THEN "combine" ELSE "run"
            /\ stepIdx' = 0
       ELSE IF 1 < NumTimeSteps
            THEN pc' = "step" /\ stepIdx' = 1
            ELSE pc' = "combine" /\ stepIdx' = stepIdx
    /\ cur' = 1
    /\ lastCall' = Call("runGlobal", 0, 0)
    /\ rowAccess' = {}
    /\ UNCHANGED <<handlers, start, stop, stepSize, entity_map, volumes, species, params, modules,
                   targets, overlapping_params, results_matrix, amici,
                   delta_t, final_matrix, stepDone, stepCalls, exchDone, stepInput, stepLive,
                   initRow, calls, tauVars, rateVars>>

\* a stepGlobal without the barrier: each module exchanges right after
\* its own step
afterStep_noBarrier(m) == [pc |-> "exchange", cur |-> m]

\* the program point after step(stepIdx) of module m inside stepGlobal
afterStep(m) == nextModule(m, "step", "exchange")

StepModule(m) ==
    /\ pc = "step" /\ cur = m
    /\ \E realizations \in Draws(m) : StepEffect(m, stepIdx, realizations)
    /\ LET nx == afterStep(m)
       IN  pc' = nx.pc /\ cur' = nx.cur
    /\ UNCHANGED <<handlers, start, stop, stepSize, entity_map, volumes, params, modules, targets,
                   overlapping_params, amici, delta_t, final_matrix, stepIdx,
                   exchDone, initRow, calls, tauVars, rateVars>>

\* StochasticModule::run of the only module: step(t) for t = 0 .. size-1
StochasticRunStep ==
    /\ pc = "run" /\ modules[1].kind = "Stochastic"
    /\ stepIdx < NumTimeSteps
    /\ \E realizations \in Draws(1) : StepEffect(1, stepIdx, realizations)
    /\ stepIdx' = stepIdx + 1
    /\ pc' = IF stepIdx + 1 < NumTimeSteps THEN "run" ELSE "combine"
    /\ UNCHANGED <<handlers, start, stop, stepSize, entity_map, volumes, params, modules, targets,
                   overlapping_params, amici, delta_t, final_matrix, cur,
                   exchDone, initRow, calls, tauVars, rateVars>>

\* DeterministicModule::run of the only module
DeterministicRun ==
    /\ pc = "run" /\ modules[1].kind = "Deterministic"
    /\ \E outside \in OutOfRange(lastStepRow(0), NumRows(1)) :
        LET timepoints == setTimeSteps(start, stop, stepSize)
            initial_state ==
               IF lastStepRow(0) \in DOMAIN results_matrix[1]
               THEN getLastStepResult(results_matrix[1], 0)
               ELSE [j \in 1..Len(Def(1).speciesIds) |-> outside.v]
        IN  IF outside.crash
            THEN pc' = "crashed" /\ UNCHANGED <<species, results_matrix>>
            ELSE /\ species' = [species EXCEPT ![modules[1].h] = initial_state]
                 /\ results_matrix' =
                       [results_matrix EXCEPT
                           ![1] = [i \in DOMAIN results_matrix[1] |->
                                     IF i < Len(timepoints)
                                     THEN runAmiciSimulation(initial_state, amici[1],
                                                             timepoints[i + 1])
                                     ELSE results_matrix[1][i]]]
                 /\ pc' = "combine"
    /\ rowAccess' = {lastStepRow(0)} \cup
                        {i - 1 : i \in 1..Len(setTimeSteps(start, stop, stepSize))}
    /\ lastCall' = Call("run", 1, 0)
    /\ UNCHANGED <<handlers, start, stop, stepSize, entity_map, volumes, params, modules, targets,
                   overlapping_params, amici, delta_t, final_matrix, cur,
                   stepIdx, stepDone, stepCalls, exchDone, stepInput, stepLive, initRow, calls, tauVars, rateVars>>

(***************************************************************************)
(* updateParameters.  `st` is the part of the program state the call can   *)
(* touch: every Model's species, the caller's parameters, the caller's     *)
(* AMICI fixed parameters, and whether the process has died; `reads` lists *)
(* the species values the call has read from its targets, in order.        *)
(*                                                                         *)
(* DeterministicModule::updateParameters dereferences                      *)
(* alternate_model.model->getSpecies(id) without a null check.  When id is *)
(* not a species of the target this is undefined behaviour: the process    *)
(* dies, or the read yields some value and the call goes on.               *)
(***************************************************************************)
setParameter(vec, param_ids, id, v) ==
    [vec EXCEPT ![IndexOf(param_ids, id)] = v]

RECURSIVE deterministicExchangeIds(_, _, _, _, _)
deterministicExchangeIds(st, m, t, ids, ub) ==
    IF ids = <<>> \/ st.crashed THEN st
    ELSE LET id == Head(ids)
             alt_ids == Def(t).speciesIds
             found == InSeq(alt_ids, id)
             v == IF found THEN st.species[modules[t].h][IndexOf(alt_ids, id)]
                  ELSE ub.v
         IN  IF ~found /\ ub.crash
             THEN [st EXCEPT !.crashed = TRUE]
             ELSE deterministicExchangeIds(
                     [st EXCEPT
                        !.amici = setParameter(@, Def(m).paramIds, id, v),
                        !.params = setParameter(@, Def(m).paramIds, id, v),
                        !.reads = IF found
                                  THEN Append(@, [t |-> t, id |-> id, value |-> v])
                                  ELSE @],
                     m, t, Tail(ids), ub)

RECURSIVE deterministicUpdateParameters(_, _, _, _)
deterministicUpdateParameters(st, m, ts, ub) ==
    IF ts = <<>> \/ st.crashed THEN st
    ELSE LET t == Head(ts)
             ht == modules[t].h
             unit2nM == mpc2nanomolar(Def(t).speciesIds)
             \* alternate_model shares the target's Model
             converted == [st EXCEPT !.species[ht] =
                              convertSpeciesUnits(@, unit2nM)]
         IN  deterministicUpdateParameters(
                 deterministicExchangeIds(converted, m, t,
                                          overlapping_params[m], ub),
                 m, Tail(ts), ub)

RECURSIVE stochasticExchangeIds(_, _, _, _)
stochasticExchangeIds(st, m, t, ids) ==
    IF ids = <<>> THEN st
    ELSE LET id == Head(ids)
             alt_ids == Def(t).speciesIds
         IN  IF ~InSeq(alt_ids, id) \/ ~InSeq(Def(m).paramIds, id)
             THEN stochasticExchangeIds(st, m, t, Tail(ids))
             ELSE stochasticExchangeIds(
                     [st EXCEPT
                        !.params =
                           setParameter(@, Def(m).paramIds, id,
                               st.species[modules[t].h][IndexOf(alt_ids, id)]),
                        !.reads =
                           Append(@, [t |-> t, id |-> id,
                                      value |-> st.species[modules[t].h]
                                                   [IndexOf(alt_ids, id)]])],
                     m, t, Tail(ids))

RECURSIVE stochasticUpdateParameters(_, _, _)
stochasticUpdateParameters(st, m, ts) ==
    IF ts = <<>> THEN st
    ELSE stochasticUpdateParameters(
             stochasticExchangeIds(st, m, Head(ts), overlapping_params[m]),
             m, Tail(ts))

\* does the call of module m read a species its target does not have
readsMissingSpecies(m) ==
    /\ modules[m].kind = "Deterministic"
    /\ \E i \in 1..Len(targets[m]) : \E k \in 1..Len(overlapping_params[m]) :
          ~InSeq(Def(targets[m][i]).speciesIds, overlapping_params[m][k])

updateParameters(m, ub) ==
    LET st == [species |-> species, params |-> params[modules[m].h],
               amici |-> amici[m], crashed |-> FALSE, reads |-> <<>>]
    IN  IF modules[m].kind = "Deterministic"
        THEN deterministicUpdateParameters(st, m, targets[m], ub)
        ELSE stochasticUpdateParameters(st, m, targets[m])

\* the program point after updateParameters of module m in round stepIdx
afterUpdate(m) ==
    IF m < Len(modules) THEN [pc |-> "exchange", cur |-> m + 1, step |-> stepIdx]
    ELSE IF stepIdx + 1 < NumTimeSteps
         THEN [pc |-> "step", cur |-> 1, step |-> stepIdx + 1]
         ELSE [pc |-> "combine", cur |-> 1, step |-> stepIdx]

UpdateParameters(m) ==
    /\ pc = "exchange" /\ cur = m
    /\ \E ub \in IF readsMissingSpecies(m) THEN UbOutcomes
                 ELSE {[crash |-> FALSE, v |-> Zero]} :
          LET st == updateParameters(m, ub)
              nx == afterUpdate(m)
          IN  /\ species' = st.species
              /\ params' = [params EXCEPT ![modules[m].h] = st.params]
              /\ amici' = [amici EXCEPT ![m] = st.amici]
              /\ IF st.crashed
                 THEN pc' = "crashed" /\ cur' = cur /\ stepIdx' = stepIdx
                      /\ exchDone' = exchDone
                 ELSE pc' = nx.pc /\ cur' = nx.cur /\ stepIdx' = nx.step
                      /\ exchDone' = [exchDone EXCEPT ![m] = stepIdx]
    /\ lastCall' = Call("updateParameters", m, stepIdx)
    /\ rowAccess' = {}
    /\ UNCHANGED <<handlers, start, stop, stepSize, entity_map, volumes, modules, targets,
                   overlapping_params, results_matrix, delta_t, final_matrix,
                   stepDone, stepCalls, stepInput, stepLive, initRow, calls, tauVars, rateVars>>

(***************************************************************************)
(* SingleCell::combineResultsMatrix                                        *)
(***************************************************************************)
\* a block that is put in front of the row
appendBlock_inFront(row, mod_row) == mod_row \o row

\* final_matrix[t].insert(final_matrix[t].end(), mod_matrix[t].begin(), ...)
appendBlock(row, mod_row) == row \o mod_row

RECURSIVE combineFrom(_, _)
combineFrom(m, acc) ==
    IF m > Len(modules) THEN acc
    ELSE combineFrom(m + 1,
            IF m = 1 THEN results_matrix[1]
            ELSE [t \in DOMAIN acc |->
                    IF t \in DOMAIN results_matrix[m]
                    THEN appendBlock(acc[t], results_matrix[m][t])
                    ELSE acc[t]])

\* SingleCell::getGlobalSpeciesIds
RECURSIVE getGlobalSpeciesIds(_)
getGlobalSpeciesIds(m) ==
    IF m > Len(modules) THEN <<>>
    ELSE Def(m).speciesIds \o getGlobalSpeciesIds(m + 1)

CombineResultsMatrix ==
    /\ pc = "combine"
    /\ final_matrix' = combineFrom(1, <<>>)
    /\ pc' = "done"
    /\ lastCall' = Call("combineResultsMatrix", 0, 0)
    /\ rowAccess' = {}
    /\ UNCHANGED <<handlers, start, stop, stepSize, entity_map, volumes, species, params, modules,
                   targets, overlapping_params, results_matrix, amici, delta_t,
                   cur, stepIdx, stepDone, stepCalls, exchDone, stepInput, stepLive, initRow,
                   calls, tauVars, rateVars>>

Next ==
    \/ LoadSimulationModules
    \/ \E m \in 1..Len(modules) : LoadTargetModule(m)
    \/ \E m \in 1..Len(modules) : FindModuleOverlaps(m)
    \/ \E m \in 1..Len(modules) : SetSimulationSettings(m)
    \/ RunGlobal
    \/ \E m \in 1..Len(modules) : StepModule(m)
    \/ StochasticRunStep
    \/ DeterministicRun
    \/ \E m \in 1..Len(modules) : UpdateParameters(m)
    \/ CombineResultsMatrix

Spec == Init /\ [][Next]_vars

(***************************************************************************)
(* simulate called again on the same object.  The bindings expose simulate *)
(* as a method, and nothing in simulate or in loadSimulationModules clears *)
(* this->modules: the second call starts from the members the first call   *)
(* left behind.                                                            *)
(***************************************************************************)
RepeatLists == { <<"det", "sto1">>, <<"sto1", "det">>, <<"det">>, <<"sto1">> }

SimulateAgain ==
    /\ pc = "done"
    /\ calls = 1          \* the second call on the object
    /\ calls' = calls + 1
    /\ pc' = "load"
    /\ cur' = 1
    /\ lastCall' = Call("simulate", 0, 0)
    /\ rowAccess' = {}
    /\ UNCHANGED <<handlers, start, stop, stepSize, entity_map, volumes, species,
                   params, modules, targets, overlapping_params, results_matrix,
                   amici, delta_t, final_matrix, stepIdx, stepDone, stepCalls,
                   exchDone, stepInput, stepLive, initRow, tauVars,
                   rateVars>>

NextRepeat == Next \/ SimulateAgain

InitRepeat ==
    /\ MainInitOver(1..RepeatStop) /\ TauIdle /\ RateIdle
    /\ handlers \in RepeatLists
    /\ entity_map = <<>>

SpecRepeat == InitRepeat /\ [][NextRepeat]_vars

\* simulate called with any stop, stop <= start included
InitRange == MainInitOver(0..MaxStop) /\ TauIdle /\ RateIdle

SpecRange == InitRange /\ [][Next]_vars

(***************************************************************************)
(* constrainTau and computeNewState on their own: every small state,       *)
(* stoichiometric matrix and firing vector.                                *)
(***************************************************************************)
Coefs == (0 - MaxCoef)..MaxCoef

TauShapes == { <<1, 1>>, <<2, 1>>, <<2, 2>> }

TauMatrices ==
    UNION { [1..sh[1] -> [1..sh[2] -> Coefs]] : sh \in TauShapes }

MainIdle ==
    /\ handlers = <<>> /\ start = 0 /\ stop = 0 /\ stepSize = 1
    /\ entity_map = <<>> /\ volumes = <<>> /\ stepCalls = <<>>
    /\ species = <<>> /\ params = <<>> /\ modules = <<>> /\ targets = <<>>
    /\ overlapping_params = <<>> /\ results_matrix = <<>> /\ amici = <<>>
    /\ delta_t = <<>> /\ final_matrix = <<>> /\ pc = "off" /\ cur = 1
    /\ stepIdx = 0 /\ stepDone = <<>> /\ exchDone = <<>> /\ stepInput = <<>>
    /\ stepLive = <<>> /\ initRow = <<>> /\ lastCall = NoCall
    /\ rowAccess = {} /\ calls = 0

InitTau ==
    /\ MainIdle /\ RateIdle
    /\ tpc = "sampled"
    /\ tS \in TauMatrices
    /\ tx \in [1..Len(tS) -> 0..MaxCount]
    /\ tm \in [1..Len(tS[1]) -> 0..MaxFire]
    /\ tmhat = <<>>
    /\ tnew = <<>>

ConstrainTau ==
    /\ tpc = "sampled"
    /\ tmhat' = constrainTau(tS, tm, tx)
    /\ tpc' = "constrained"
    /\ UNCHANGED <<mainVars, rateVars, tS, tx, tm, tnew>>

ComputeNewState ==
    /\ tpc = "constrained"
    /\ tnew' = computeNewState(tS, tx, tmhat)
    /\ tpc' = "applied"
    /\ UNCHANGED <<mainVars, rateVars, tS, tx, tm, tmhat>>

NextTau == ConstrainTau \/ ComputeNewState

SpecTau == InitTau /\ [][NextTau]_vars

(***************************************************************************)
(* The rate laws of a Stochastic module on their own: computeReactions,    *)
(* samplePoisson and the rest of StochasticModule::step on a small Model.  *)
(* A formula is a sequence of characters.  The Model has, under each of    *)
(* the identifiers a and b, any set of entities: a parameter, a species, a *)
(* compartment.                                                            *)
(***************************************************************************)
Kinds == {"parameter", "species", "compartment"}

Ids == { <<"a">>, <<"b">> }

\* getValue() of a parameter, getInitialConcentration() of a species and
\* getVolume() of a compartment of the small Model
entityValue(kind) ==
    CASE kind = "parameter"   -> 2
      [] kind = "species"     -> 3
      [] kind = "compartment" -> 5

\* sbml->getParameter(id) / getSpecies(id) / getCompartment(id) != nullptr
hasEntity(kind, component) ==
    component \in Ids /\ kind \in rKinds[component]

Letters == {"a", "b", "z"}

Digits == {"2"}

FormulaSet ==
    { <<"a">>, <<"b">>, <<"a", "*", "b">>, <<"a", " ", "+", " ", "b">>,
      <<"2", "*", "a">>, <<"a", "*">>, <<"a", " ", "b">>, <<"a", "b">>,
      <<"z">>, <<>> }

FormulaLists ==
    { <<f>> : f \in FormulaSet } \cup { <<f, g>> : f \in FormulaSet, g \in FormulaSet }

\* StochasticModule::tokenizeFormula
RECURSIVE tokenizeFrom(_, _, _)
tokenizeFrom(chars, current_token_bin, tokens) ==
    LET flushed == IF current_token_bin # <<>>
                   THEN Append(tokens, current_token_bin) ELSE tokens
    IN  IF chars = <<>> THEN flushed
        ELSE LET c == Head(chars)
             IN  IF c \in {"+", "-", "*", "/", "^", "(", ")"}
                 THEN tokenizeFrom(Tail(chars), <<>>, flushed)
                 ELSE IF c # " "
                 THEN tokenizeFrom(Tail(chars), Append(current_token_bin, c), tokens)
                 ELSE tokenizeFrom(Tail(chars), <<>>, flushed)

tokenizeFormula(formula_str) == tokenizeFrom(formula_str, <<>>, <<>>)

\* a lookup that asks for a species before it asks for a parameter
resolve_speciesFirst(component) ==
    IF hasEntity("species", component)
    THEN [found |-> TRUE, value |-> entityValue("species")]
    ELSE IF hasEntity("parameter", component)
    THEN [found |-> TRUE, value |-> entityValue("parameter")]
    ELSE IF hasEntity("compartment", component)
    THEN [found |-> TRUE, value |-> entityValue("compartment")]
    ELSE [found |-> FALSE, value |-> 0]

\* the if / else-if chain of mapComponentsToValues for one component
resolve(component) ==
    IF hasEntity("parameter", component)
    THEN [found |-> TRUE, value |-> entityValue("parameter")]
    ELSE IF hasEntity("species", component)
    THEN [found |-> TRUE, value |-> entityValue("species")]
    ELSE IF hasEntity("compartment", component)
    THEN [found |-> TRUE, value |-> entityValue("compartment")]
    ELSE [found |-> FALSE, value |-> 0]

\* StochasticModule::mapComponentsToValues: component_value_map
mapComponentsToValues(formula_str) ==
    LET components_vector == tokenizeFormula(formula_str)
        bound == {components_vector[i] : i \in
                     {k \in 1..Len(components_vector) :
                         resolve(components_vector[k]).found}}
    IN  [component \in bound |-> resolve(component).value]

(***************************************************************************)
(* mu::Parser on formulas over names, one-digit numbers, + and *: SetExpr  *)
(* and Eval read the formula string itself (not the tokens above), skip    *)
(* blanks, take the longest name, and throw a mu::Parser::exception_type   *)
(* for an empty expression, a missing or unexpected operand, and a name    *)
(* that is not a defined variable.                                         *)
(***************************************************************************)
RECURSIVE readItems(_, _, _)
readItems(chars, bin, items) ==
    LET flushed == IF bin # <<>>
                   THEN Append(items, [op |-> FALSE, text |-> bin]) ELSE items
    IN  IF chars = <<>> THEN flushed
        ELSE LET c == Head(chars)
             IN  IF c \in Letters \cup Digits
                 THEN IF bin # <<>> /\ Head(bin) \in Digits /\ c \in Letters
                      THEN readItems(Tail(chars), <<c>>, flushed)
                      ELSE readItems(Tail(chars), Append(bin, c), items)
                 ELSE IF c = " "
                 THEN readItems(Tail(chars), <<>>, flushed)
                 ELSE readItems(Tail(chars), <<>>,
                                Append(flushed, [op |-> TRUE, text |-> <<c>>]))

\* operands and operators alternate, first and last item an operand
wellFormed(items) ==
    /\ Len(items) % 2 = 1
    /\ \A k \in 1..Len(items) : items[k].op = (k % 2 = 0)

operandDefined(text, variables) ==
    Head(text) \in Digits \/ text \in DOMAIN variables

\* the only number the formulas hold is 2
operandValue(text, variables) ==
    IF Head(text) \in Digits THEN 2 ELSE variables[text]

\* sum of products, left to right: `sum` holds the finished terms, `prod`
\* the term being multiplied
RECURSIVE evalItems(_, _, _, _)
evalItems(items, variables, sum, prod) ==
    IF items = <<>> THEN sum + prod
    ELSE LET next == operandValue(items[2].text, variables)
         IN  IF items[1].text = <<"+">>
             THEN evalItems(SubSeq(items, 3, Len(items)), variables, sum + prod, next)
             ELSE evalItems(SubSeq(items, 3, Len(items)), variables, sum, prod * next)

\* parser.DefineVar for every component, parser.SetExpr, parser.Eval
Eval(formula_str, variables) ==
    LET items == readItems(formula_str, <<>>, <<>>)
    IN  IF /\ wellFormed(items)
           /\ \A k \in 1..Len(items) :
                 items[k].op \/ operandDefined(items[k].text, variables)
        THEN [thrown |-> FALSE,
              v |-> evalItems(Tail(items), variables, 0,
                              operandValue(items[1].text, variables))]
        ELSE [thrown |-> TRUE, v |-> 0]

quiet_NaN == [nan |-> TRUE, v |-> 0]

\* StochasticModule::computeReaction: the catch block returns quiet_NaN
computeReaction(formula_str) ==
    LET components == mapComponentsToValues(formula_str)
        r == Eval(formula_str, components)
    IN  IF r.thrown THEN quiet_NaN ELSE [nan |-> FALSE, v |-> r.v]

\* StochasticModule::computeReactions
computeReactions(formulas_vector) ==
    [i \in 1..Len(formulas_vector) |-> computeReaction(formulas_vector[i])]

(***************************************************************************)
(* StochasticModule::samplePoisson.  Every call constructs                 *)
(* std::random_device rd and seeds std::mt19937 generator(rd()): the       *)
(* function takes no seed and keeps no generator.  For a given seed the    *)
(* generator and the distribution are a fixed function of the seed, the    *)
(* reaction and its mean.  std::poisson_distribution requires 0 < mean;    *)
(* a mean that is not-a-number or not positive is undefined behaviour: the *)
(* process dies, or the draw is some value.                                *)
(***************************************************************************)
RandomDevice == 0..MaxSeed

meanOf(rate, dt) == [nan |-> rate.nan, v |-> rate.v * dt]

validMean(mean) == ~mean.nan /\ mean.v > 0

poissonDraw(seed, i, mean) == (seed + i + mean.v) % (MaxFire + 1)

samplePoisson(mu, dt, seed, ub) ==
    LET means == [i \in 1..Len(mu) |-> meanOf(mu[i], dt)]
    IN  [crashed |-> ub.crash /\ \E i \in 1..Len(mu) : ~validMean(means[i]),
         m_i |-> [i \in 1..Len(mu) |->
                    IF validMean(means[i]) THEN poissonDraw(seed, i, means[i])
                    ELSE ub.v.n]]

\* the small Model's stoichiometric matrix (species x reactions) and state
rateStoichmat(numReactions) ==
    [j \in 1..Len(ModelDef("toy").stoichmat) |->
        SubSeq(ModelDef("toy").stoichmat[j], 1, numReactions)]

rateState == ModelDef("toy").init

InitRate ==
    /\ MainIdle /\ TauIdle
    /\ rpc = "ready"
    /\ rKinds \in [Ids -> SUBSET Kinds]
    /\ rFormulas \in FormulaLists
    /\ rBindings = <<>>
    /\ rRates = <<>>
    /\ rRuns = <<>>

\* one call of StochasticModule::step from the same state, with delta_t = 1;
\* the harness makes the call twice
StepWithRates ==
    /\ rpc \in {"ready", "stepped"}
    /\ Len(rRuns) < 2
    /\ \E seed \in RandomDevice, ub \in UbOutcomes :
          LET rates == computeReactions(rFormulas)
              drawn == samplePoisson(rates, 1, seed, ub)
              S == rateStoichmat(Len(rFormulas))
              constrained_realizations == constrainTau(S, drawn.m_i, rateState)
              new_state == computeNewState(S, rateState, constrained_realizations)
          IN  /\ rBindings' = [i \in 1..Len(rFormulas) |->
                                  mapComponentsToValues(rFormulas[i])]
              /\ rRates' = rates
              /\ IF drawn.crashed
                 THEN rpc' = "aborted" /\ rRuns' = rRuns
                 ELSE /\ rpc' = "stepped"
                      /\ rRuns' = Append(rRuns, [draws |-> drawn.m_i,
                                                 state |-> new_state])
    /\ UNCHANGED <<mainVars, tauVars, rKinds, rFormulas>>

NextRate == StepWithRates

SpecRate == InitRate /\ [][NextRate]_vars


(***************************************************************************)
(* Properties                                                              *)
(***************************************************************************)
Modules == 1..Len(modules)

Stepped == lastCall'.op = "step"

Exchanged == lastCall'.op = "updateParameters"

\* C1: the state computeNewState produces from a non-negative state and the
\* constrained firing vector has no negative species count.
C1_NoNegativeCount ==
    tpc = "applied" => \A j \in 1..Len(tnew) : tnew[j] >= 0

\* min(m_i, smallest magnitude among the strictly negative products)
consumedBound(S, m_i, x, i) ==
    MinOf({m_i[i]} \cup
          {Abs(x[j] * S[j][i]) : j \in {k \in 1..Len(x) : x[k] * S[k][i] < 0}})

\* C8: constrainTau returns, for every reaction i, min(m_i, b_i) where b_i
\* is the smallest |x[j] * S[j,i]| over the species whose product is strictly
\* negative; zero and positive products never lower the result.
C8_MinOverConsumedSpecies ==
    tpc \in {"constrained", "applied"} =>
        \A i \in 1..Len(tm) : tmhat[i] = consumedBound(tS, tm, tx, i)

\* C2: on the multi-module path every module has completed step(i) when an
\* updateParameters() of round i starts, and every module has completed
\* updateParameters() of round i when a step(i+1) starts.
C2_StepBarrier ==
    [][/\ (Exchanged /\ pc = "exchange") =>
            \A k \in Modules : stepDone[k] = lastCall'.idx
       /\ (Stepped /\ pc = "step") =>
            \A k \in Modules : exchDone[k] = lastCall'.idx - 1]_vars

\* reached for C2: a step of round 2 after every module exchanged in round 1
C2_Witness ==
    /\ Len(modules) > 1
    /\ lastCall.op = "step" /\ lastCall.idx = 2
    /\ \A k \in Modules : exchDone[k] = 1

\* a recorded row in the units the step of module m computes in
stepUnits(m, row) ==
    IF modules[m].kind = "Stochastic"
    THEN convertSpeciesUnits(
             convertSpeciesUnits(row, nanomolar2mpv(row)), VolumeFactors(row))
    ELSE row

previousRow(i) == IF i <= 1 THEN 0 ELSE i - 1

\* C3: the state step(i) computes from is the module's results row i-1
\* (row 0 when i <= 1), whatever the live species values of its Model are.
C3_StepReadsPreviousRow ==
    [][Stepped =>
          LET m == lastCall'.mod
          IN  SameVec(stepInput'[m],
                  stepUnits(m, results_matrix[m][previousRow(lastCall'.idx)]))
      ]_vars

\* reached for C3: a step that began while the live species of the module
\* differed from its previous row
C3_Witness ==
    /\ lastCall.op = "step" /\ lastCall.idx >= 2
    /\ LET m == lastCall.mod
       IN  /\ ~SameVec(stepLive[m], results_matrix[m][lastCall.idx - 1])
           /\ SameVec(stepInput[m],
                      stepUnits(m, results_matrix[m][lastCall.idx - 1]))

\* C9: step(i) of a module changes only row i of that module's matrix.
C9_StepWritesOnlyItsRow ==
    [][Stepped =>
          \A k \in Modules :
             /\ DOMAIN results_matrix'[k] = DOMAIN results_matrix[k]
             /\ \A r \in DOMAIN results_matrix[k] :
                   (k # lastCall'.mod \/ r # lastCall'.idx) =>
                       results_matrix'[k][r] = results_matrix[k][r]]_vars

\* reached for C9: a step on the multi-module path that recorded a row
C9_Witness ==
    /\ lastCall.op = "step" /\ lastCall.idx >= 1 /\ Len(modules) > 1
    /\ \E j \in 1..Len(results_matrix[lastCall.mod][lastCall.idx]) :
          results_matrix[lastCall.mod][lastCall.idx][j].n # 0

\* C10: row 0 of every module's matrix holds the initial state recorded by
\* setSimulationSettings until simulate returns.
C10_RowZeroIsInitialState ==
    \A m \in Modules :
        initRow[m] # <<>> => SameVec(results_matrix[m][0], initRow[m])

\* C4: updateParameters() of a module leaves the species and parameter
\* values of every target's Model as they were.
C4_TargetsUnchanged ==
    [][Exchanged =>
          \A i \in 1..Len(targets[lastCall'.mod]) :
             LET ht == modules[targets[lastCall'.mod][i]].h
             IN  /\ SameVec(species'[ht], species[ht])
                 /\ SameVec(params'[ht], params[ht])]_vars

\* the value a module stores when it reads value v of a target's species
readAs(m, v) ==
    IF modules[m].kind = "Deterministic" THEN Times(v, Factor(-1, -1)) ELSE v

\* C5: after updateParameters() of module A, for every target B and every
\* overlap identifier p that is a species of B, A's parameter p equals B's
\* species value for p in A's units.
C5_ParameterEqualsTargetSpecies ==
    [][Exchanged =>
          LET a == lastCall'.mod
          IN  /\ pc' # "crashed"
              /\ \A i \in 1..Len(targets[a]) :
                   \A k \in 1..Len(overlapping_params[a]) :
                      LET b == targets[a][i]
                          p == overlapping_params[a][k]
                      IN  InSeq(Def(b).speciesIds, p) =>
                            SameVal(
                              params'[modules[a].h][IndexOf(Def(a).paramIds, p)],
                              readAs(a, species[modules[b].h]
                                          [IndexOf(Def(b).speciesIds, p)]))]_vars

kindsOf == {modules[m].kind : m \in Modules}

\* C6: with one Deterministic and one Stochastic module, after target
\* assignment each module has the other one in its target list.
C6_BidirectionalTargets ==
    (/\ pc \notin {"off", "load", "targets"}
     /\ Len(modules) = 2
     /\ kindsOf = {"Deterministic", "Stochastic"}) =>
        /\ InSeq(targets[1], 2)
        /\ InSeq(targets[2], 1)

RECURSIVE lastProvider(_, _, _)
lastProvider(ts, p, found) ==
    IF ts = <<>> THEN found
    ELSE lastProvider(Tail(ts), p,
            IF InSeq(Def(Head(ts)).speciesIds, p) THEN Head(ts) ELSE found)

\* C7: updateParameters() skips an overlap identifier that is no species of
\* the target being read: it does not fail, the parameter keeps the value
\* the last target that has the species gives it, and the run goes on.
C7_MissingIdSkipped ==
    [][Exchanged =>
          LET a == lastCall'.mod
          IN  /\ pc' # "crashed"
              /\ \A k \in 1..Len(Def(a).paramIds) :
                    LET p == Def(a).paramIds[k]
                        b == lastProvider(targets[a], p, 0)
                    IN  IF InSeq(overlapping_params[a], p) /\ b # 0
                        THEN SameVal(params'[modules[a].h][k],
                                 readAs(a, species[modules[b].h]
                                             [IndexOf(Def(b).speciesIds, p)]))
                        ELSE params'[modules[a].h][k] = params[modules[a].h][k]
      ]_vars

SettingsApplied == lastCall'.op = "setSimulationSettings"

\* C11: setSimulationSettings of every module, Deterministic or Stochastic,
\* applies every override pair before it reads the initial state: row 0 of
\* a module that has species A shows the overridden value of A.
C11_OverridesInRowZero ==
    [][SettingsApplied =>
          LET m == lastCall'.mod
          IN  \A i \in 1..Len(entity_map) :
                 LET A == entity_map[i].id
                 IN  InSeq(Def(m).speciesIds, A) =>
                       /\ pc' \notin {"exited", "crashed"}
                       /\ SameVal(results_matrix'[m][0]
                                      [IndexOf(Def(m).speciesIds, A)],
                                  Declared(entity_map[i].value))]_vars

\* does the identifier name a parameter, a species or a compartment
resolves(d, id) ==
    InSeq(d.paramIds, id) \/ InSeq(d.speciesIds, id)
        \/ InSeq(d.compartmentIds, id)

\* C17: when an override identifier names no parameter, species or
\* compartment of a module's model, the run ends in a failure
\* before any step is taken and before a result is produced, whatever the
\* override value is.
C17_UnknownOverrideAborts ==
    (\E i \in 1..Len(entity_map) : \E m \in Modules :
        ~resolves(Def(m), entity_map[i].id)) =>
        /\ pc \in {"targets", "overlaps", "settings", "exited", "crashed"}
        /\ \A k \in Modules : stepCalls[k] = 0
        /\ final_matrix = <<>>

\* the steps a module has simulated: its step() calls or, for the bulk run
\* of a single Deterministic module, the solver's timepoints after the first
simulatedSteps(m) ==
    IF Len(modules) = 1 /\ modules[1].kind = "Deterministic"
    THEN NumTimeSteps - 1
    ELSE stepCalls[m]

\* C12: the matrix simulate returns has N + 1 rows, N >= 1 being the number
\* of steps simulated, and every row has as many columns as all modules
\* together have species.
C12_ResultsMatrixShape ==
    (pc = "done" /\ Len(modules) >= 1) =>
        \A m \in Modules :
           simulatedSteps(m) >= 1 =>
              /\ Cardinality(DOMAIN final_matrix) = simulatedSteps(m) + 1
              /\ \A t \in DOMAIN final_matrix :
                    Len(final_matrix[t]) = Len(getGlobalSpeciesIds(1))

\* the number of columns in front of the block of module m
blockOffset(m) == Len(getGlobalSpeciesIds(1)) - Len(getGlobalSpeciesIds(m))

\* C13: in the combined matrix, column k of row t is the row-t value of the
\* species getGlobalSpeciesIds()[k]: the blocks follow the module order and
\* each block keeps the species order of its module.
C13_ColumnsFollowModuleOrder ==
    pc = "done" =>
        \A m \in Modules : \A j \in 1..Len(Def(m).speciesIds) :
           /\ getGlobalSpeciesIds(1)[blockOffset(m) + j] = Def(m).speciesIds[j]
           /\ \A t \in DOMAIN final_matrix :
                 final_matrix[t][blockOffset(m) + j] = results_matrix[m][t][j]

\* reached for C13: a combined matrix of two modules with several rows whose
\* blocks differ
C13_Witness ==
    /\ pc = "done" /\ Len(modules) = 2
    /\ Cardinality(DOMAIN final_matrix) >= 2
    /\ Len(final_matrix[1]) = 3
    /\ final_matrix[1][1] # final_matrix[1][2]
    /\ final_matrix[1][1] # final_matrix[1][3]

OverlapsResolved ==
    pc \in {"settings", "runGlobal", "step", "run", "exchange", "combine",
            "done", "exited", "crashed"}

\* C14: after findModuleOverlaps, p is in module M's overlap list exactly
\* when p is a parameter id of M and a species id of one of M's targets; a
\* module without targets has an empty list.
C14_OverlapIsIntersection ==
    OverlapsResolved =>
        \A m \in Modules :
           /\ \A k \in 1..Len(overlapping_params[m]) :
                 LET p == overlapping_params[m][k]
                 IN  /\ InSeq(Def(m).paramIds, p)
                     /\ \E i \in 1..Len(targets[m]) :
                           InSeq(Def(targets[m][i]).speciesIds, p)
           /\ \A k \in 1..Len(Def(m).paramIds) :
                 LET p == Def(m).paramIds[k]
                 IN  (\E i \in 1..Len(targets[m]) :
                         InSeq(Def(targets[m][i]).speciesIds, p))
                     => InSeq(overlapping_params[m], p)
           /\ (targets[m] = <<>> => overlapping_params[m] = <<>>)

\* reached for C14: a module with a target whose overlap list has one of
\* its parameters and lacks another, next to a module without targets
C14_Witness ==
    /\ OverlapsResolved
    /\ \E m \in Modules :
          /\ targets[m] # <<>>
          /\ overlapping_params[m] # <<>>
          /\ \E k \in 1..Len(Def(m).paramIds) :
                ~InSeq(overlapping_params[m], Def(m).paramIds[k])
    /\ \E m \in Modules : targets[m] = <<>> /\ Def(m).paramIds # <<>>

\* the lifecycle phase an operation belongs to
phaseOf(op) ==
    CASE op = "none" -> 0
      [] op = "loadSimulationModules" -> 1
      [] op = "loadTargetModule" -> 2
      [] op = "findOverlappingIds" -> 3
      [] op = "setSimulationSettings" -> 4
      [] op \in {"runGlobal", "step", "run", "updateParameters"} -> 5
      [] op = "combineResultsMatrix" -> 6

\* C15: simulate goes through construct, assign targets, resolve overlaps,
\* apply settings, step/exchange, combine in this order; a phase is
\* completed for all modules before the next one starts for any module,
\* and no step or exchange happens before every module has its settings.
C15_LifecycleOrder ==
    [][LET a == phaseOf(lastCall.op)
           b == phaseOf(lastCall'.op)
       IN  /\ b >= a
           /\ (b > a + 1) => Len(modules') = 0
           /\ (b > a /\ a \in 2..4) => lastCall.mod = Len(modules)
           /\ (b > a /\ b \in 2..4) => lastCall'.mod = 1
           /\ (b = a /\ a \in 2..4) => lastCall'.mod = lastCall.mod + 1
           /\ (b = 5) => \A k \in Modules : DOMAIN results_matrix[k] # {}
      ]_vars

\* reached for C15: a step of the second module of a run that went through
\* every earlier phase for two or more modules
C15_Witness ==
    /\ Len(modules) >= 2
    /\ lastCall.op = "step" /\ lastCall.mod = 2 /\ lastCall.idx = 1
    /\ \A k \in Modules : DOMAIN results_matrix[k] # {}

\* C16: after loadSimulationModules no module of the list has a handler
\* with zero species.
C16_NoEmptyModule ==
    pc \notin {"off", "load"} =>
        \A m \in Modules : Len(Def(m).speciesIds) > 0

\* the matrix that step(i) for i = 1 .. last builds from `matrix`
RECURSIVE stepwise(_, _, _, _)
stepwise(matrix, fixed, i, last) ==
    IF i > last THEN matrix
    ELSE stepwise(
             recordStepResult(matrix,
                 deterministicStepOn(matrix, fixed, i).row, i),
             fixed, i + 1, last)

\* C18: a single Deterministic module without targets is run on the bulk
\* path, and its matrix equals, row by row, the one step(i), i = 1..N,
\* builds from the same initial state.
C18_BulkEqualsStepwise ==
    (/\ lastCall.op = "run"
     /\ modules[1].kind = "Deterministic"
     /\ targets[1] = <<>>) =>
        /\ stepCalls[1] = 0
        /\ LET T == NumRows(1)
               first == recordStepResult(
                            createResultsMatrix(Len(initRow[1]), T),
                            initRow[1], 0)
               bySteps == stepwise(first, amici[1], 1, T - 1)
           IN  \A r \in DOMAIN results_matrix[1] :
                  SameVec(results_matrix[1][r], bySteps[r])

closedNetwork(d) ==
    /\ d.speciesIds # <<>>
    /\ Len(d.stoichmat[1]) > 0
    /\ \A i \in 1..Len(d.stoichmat[1]) :
          SumTo(getColumn(d.stoichmat, i), Len(d.stoichmat)) = 0

C29_ConstrainedWithinSample ==
    tpc \in {"constrained", "applied"} =>
        \A i \in 1..Len(tm) :
           /\ 0 <= tmhat[i] /\ tmhat[i] <= tm[i]
           /\ (\A j \in 1..Len(tS) : tS[j][i] = 0) => tmhat[i] = tm[i]

\* reached for C29: a count that was lowered next to one that was kept for
\* an all-zero column
C29_Witness ==
    /\ tpc = "constrained" /\ Len(tm) = 2
    /\ tmhat[1] < tm[1]
    /\ (\A j \in 1..Len(tS) : tS[j][2] = 0) /\ tm[2] > 0 /\ tmhat[2] = tm[2]

DeterministicStepped ==
    Stepped /\ modules[lastCall'.mod].kind = "Deterministic"

\* C24: every Deterministic step(i) hands the solver an interval of one
\* step size, the same for every i, and records the state of row i-1
\* advanced by that interval.
C24_StepAdvancesOneStepSize ==
    [][DeterministicStepped =>
          LET m == lastCall'.mod
              i == lastCall'.idx
              tp == stepTimepoints(i)
          IN  /\ tp[2] - tp[1] = stepSize
              /\ SameVec(results_matrix'[m][i],
                         runAmiciSimulation(stepInput'[m], amici[m], stepSize))
      ]_vars

\* C26: setModelEntityValue(id, v) on a model that has the identifier
\* changes exactly one entity, the parameter id if there is one, else the
\* species id, else the compartment id, to v, whatever v is; nothing else
\* changes and the call returns.
C26_OneEntitySet ==
    [][(/\ SettingsApplied
        /\ modules[lastCall'.mod].kind = "Deterministic"
        /\ Len(entity_map) = 1
        /\ resolves(Def(lastCall'.mod), entity_map[1].id)) =>
          LET h == modules[lastCall'.mod].h
              d == Def(lastCall'.mod)
              id == entity_map[1].id
              v == entity_map[1].value
              isP == InSeq(d.paramIds, id)
              isS == ~isP /\ InSeq(d.speciesIds, id)
              isC == ~isP /\ ~isS /\ InSeq(d.compartmentIds, id)
          IN  /\ pc' \notin {"exited", "crashed"}
              /\ params'[h] =
                    IF isP
                    THEN [params[h] EXCEPT ![IndexOf(d.paramIds, id)] = Declared(v)]
                    ELSE params[h]
              /\ species'[h] =
                    IF isS
                    THEN [species[h] EXCEPT ![IndexOf(d.speciesIds, id)] = Declared(v)]
                    ELSE species[h]
              /\ volumes'[h] =
                    IF isC
                    THEN [volumes[h] EXCEPT ![IndexOf(d.compartmentIds, id)] = v]
                    ELSE volumes[h]
      ]_vars

\* C27: every results-matrix row index that setSimulationSettings, step or
\* run reads or writes is smaller than the number of rows the module's
\* matrix was allocated with, for every stop, stop <= start included.
C27_AccessWithinMatrix ==
    lastCall.op \in {"setSimulationSettings", "step", "run"} =>
        \A row \in rowAccess : row < NumTimeSteps

\* the tokens of reaction i's rate law
tokensOf(i) ==
    LET components_vector == tokenizeFormula(rFormulas[i])
    IN  {components_vector[k] : k \in 1..Len(components_vector)}

\* the kinds of entity the Model has under a token
entityKinds(token) == IF token \in Ids THEN rKinds[token] ELSE {}

\* C22: a rate-law token is bound to the value of the parameter of that
\* name if there is one, else of the species, else of the compartment; a
\* token that names none of the three has no binding.
C22_BindingPriority ==
    rpc \in {"stepped", "aborted"} =>
        \A i \in 1..Len(rFormulas) : \A token \in tokensOf(i) :
           LET kinds == entityKinds(token)
               b == rBindings[i]
           IN  /\ "parameter" \in kinds =>
                     token \in DOMAIN b /\ b[token] = entityValue("parameter")
               /\ ("parameter" \notin kinds /\ "species" \in kinds) =>
                     token \in DOMAIN b /\ b[token] = entityValue("species")
               /\ kinds = {"compartment"} =>
                     token \in DOMAIN b /\ b[token] = entityValue("compartment")
               /\ kinds = {} => token \notin DOMAIN b

\* a token that names a parameter, a species and a compartment is bound to
\* the parameter's value, next to a token that names nothing
C22_Witness ==
    /\ rpc = "stepped"
    /\ \E i \in 1..Len(rFormulas) :
          /\ <<"a">> \in tokensOf(i) /\ rKinds[<<"a">>] = Kinds
          /\ rBindings[i][<<"a">>] = entityValue("parameter")
    /\ \E i \in 1..Len(rFormulas) :
          <<"z">> \in tokensOf(i) /\ <<"z">> \notin DOMAIN rBindings[i]

\* does the evaluation of a rate law fail: a parse error or an identifier
\* without binding
parses(formula_str) == wellFormed(readItems(formula_str, <<>>, <<>>))

unboundName(formula_str) ==
    \E token \in {tokenizeFormula(formula_str)[k] :
                     k \in 1..Len(tokenizeFormula(formula_str))} :
       Head(token) \in Letters /\ entityKinds(token) = {}

fails(formula_str) == ~parses(formula_str) \/ unboundName(formula_str)

\* a sequence without its i-th element
without(seq, i) == SubSeq(seq, 1, i - 1) \o SubSeq(seq, i + 1, Len(seq))

\* C23: when the rate law of reaction i fails to evaluate, the rate of i is
\* not-a-number, the other rates are what computeReactions gives without
\* reaction i, and the step goes on: the process is not aborted.
C23_FailureIsLocal ==
    rpc \in {"stepped", "aborted"} =>
        \A i \in 1..Len(rFormulas) :
           fails(rFormulas[i]) =>
              /\ rRates[i].nan
              /\ without(rRates, i) = computeReactions(without(rFormulas, i))
              /\ rpc # "aborted"

\* C21: two runs of the stochastic step from the same state, with the same
\* stoichiometric matrix and the same rate vector, give the same Poisson
\* draws and the same new state.
C21_RunsAgree ==
    (/\ Len(rRuns) = 2
     /\ \A i \in 1..Len(rRates) : validMean(meanOf(rRates[i], 1))) =>
        /\ rRuns[1].draws = rRuns[2].draws
        /\ rRuns[1].state = rRuns[2].state

\* the modules one call of simulate loads from the object's handlers
loadedOnce == loadFrom(1, <<>>)

RECURSIVE speciesCount(_)
speciesCount(mods) ==
    IF mods = <<>> THEN 0
    ELSE Len(ModelDef(handlers[Head(mods).h]).speciesIds) + speciesCount(Tail(mods))

\* C28: after every call of simulate on one object the module list holds
\* one module per loaded non-empty model and the returned matrix has the
\* columns of those modules, on the first call and on every later one.
C28_SimulateRepeatable ==
    pc = "done" =>
        /\ Len(modules) = Len(loadedOnce)
        /\ \A t \in DOMAIN final_matrix :
              Len(final_matrix[t]) = speciesCount(loadedOnce)

\* C25: in exchange round i every species value a module reads from a
\* target T is T's results row i, in the reader's units, whatever the other
\* modules have exchanged before it in the round.
C25_ReadsStepResult ==
    [][Exchanged =>
          LET a == lastCall'.mod
          IN  \A ub \in UbOutcomes :
                 LET reads == updateParameters(a, ub).reads
                 IN  \A k \in 1..Len(reads) :
                        LET r == reads[k]
                        IN  SameVal(r.value,
                               readAs(a, results_matrix[r.t][stepIdx]
                                            [IndexOf(Def(r.t).speciesIds, r.id)]))
      ]_vars

\* C30: every module is handed the same override map, and a run proceeds to
\* stepping only if every override identifier resolves in the model of
\* every module that applies overrides; otherwise the run is aborted.
C30_SteppingOnlyIfResolved ==
    pc \in {"runGlobal", "step", "run", "exchange", "combine", "done"} =>
        \A i \in 1..Len(entity_map) : \A m \in Modules :
           modules[m].kind = "Deterministic" =>
              resolves(Def(m), entity_map[i].id)

====
